---- MODULE Spec2Model ----
(***************************************************************************)
(* Bulletproofs range proof and inner-product argument of                  *)
(* go-ethereum/zkrangeproof/bulletproofs.go.                               *)
(*                                                                         *)
(* The curve group is modelled by the cyclic group of prime order ORDER:   *)
(* a *p256 is the discrete logarithm of the point to the base G, the point *)
(* at infinity is 0 and a nil pointer is NilPoint.  SHA-256 is modelled by *)
(* a fixed mixing function over the chunks written to the digest whose     *)
(* value is never 0 modulo ORDER.  crypto/rand.Reader is modelled by a     *)
(* random tape fixed when the run starts: the k-th rand.Int of the run on  *)
(* tape t yields RandInt(t, k).                                            *)
(***************************************************************************)
EXTENDS Integers, Sequences, FiniteSets, TLC

\* ------------------------------------------------------------------------
\* Bounds of the model
\* ------------------------------------------------------------------------
MaxLogB == 4        \* Setup is called with b = 2^k, 1 <= k <= MaxLogB
MaxTape == 3        \* random tapes 1..MaxTape
MaxSecret == 8      \* secrets -1..MaxSecret (and no more than 2^n)
MaxCalls == 3       \* Prove/Verify calls in one run
MaxProofs == 2      \* proofs a run holds
MaxTamper == 1      \* a tampered component is moved by 1..MaxTamper
MaxLen == 6         \* vector lengths 0..MaxLen of the stand-alone argument
MaxClaim == 2       \* claimed inner products 0..MaxClaim of the stand-alone argument
MaxUpper == 8       \* Setup is called with any b in 2..MaxUpper where b need be no power of two

\* ------------------------------------------------------------------------
\* Scalars (math/big) and the group (p256)
\* ------------------------------------------------------------------------
ORDER == 7

NilPoint == -1

SEEDH == "BulletproofsDoesNotNeedTrustedSetupH"

SEEDU == "BulletproofsDoesNotNeedTrustedSetupU"

Objs == {1, 2}

Mod(x, m) == x % m

Add(x, y) == x + y

Sub(x, y) == x - y

Multiply(x, y) == x * y

ModInverse(x, m) == CHOOSE i \in 1..(m - 1) : (x * i) % m = 1

SetInfinity == 0

IsZero(p) == p = 0

ScalarBaseMult(k) == Mod(k, ORDER)

ScalarMult(p, k) == Mod(p * Mod(k, ORDER), ORDER)

p256Multiply(p, q) == Mod(p + q, ORDER)

Neg(p) == Mod(ORDER - p, ORDER)

MapToGroup(seed) == IF seed = SEEDH THEN 3 ELSE 5

RandInt(tape, k) ==
    Mod(Mod((tape + 3) * (k * k + 9 * k + 11) + tape * tape, 103), ORDER)

\* Go slices a[:k] and a[k:] of a 0-based slice, on 1-based sequences.
Take(s, k) == SubSeq(s, 1, k)

Drop(s, k) == SubSeq(s, k + 1, Len(s))

\* ------------------------------------------------------------------------
\* Fiat-Shamir hashing
\* ------------------------------------------------------------------------
PointString(p) == <<"p256", p>>

BigString(c) == <<"int", c>>

ChunkCode(ch) == IF ch[1] = "p256" THEN 2 * ch[2] + 3 ELSE 2 * ch[2] + 4

RECURSIVE Absorb(_, _)
Absorb(acc, w) ==
    IF w = <<>> THEN acc
    ELSE Absorb(Mod(acc * 5 + ChunkCode(Head(w)), 1009), Tail(w))

Sha256(w) == 1 + Mod(Absorb(1, w), ORDER - 1)

HashBP(A, S) ==
    <<Sha256(<<PointString(A), PointString(S)>>),
      Sha256(<<PointString(S), PointString(A)>>)>>

RECURSIVE GenChunks(_, _, _, _)
GenChunks(g, h, i, n) ==
    IF i >= n THEN <<>>
    ELSE <<PointString(g[i + 1]), PointString(h[i + 1])>> \o GenChunks(g, h, i + 1, n)

HashIPInput(g, h, P, c, n) ==
    <<PointString(P)>> \o GenChunks(g, h, 0, n) \o <<BigString(c)>>

HashIP(g, h, P, c, n) == Sha256(HashIPInput(g, h, P, c, n))

\* ------------------------------------------------------------------------
\* Vector helpers
\* ------------------------------------------------------------------------
VectorCopy(a, n) == [i \in 1..n |-> a]

VectorConvertToBig(a, n) == [i \in 1..n |-> a[i]]

VectorAdd(a, b) ==
    IF Len(a) # Len(b) THEN <<>>
    ELSE [i \in 1..Len(a) |-> Mod(Add(a[i], b[i]), ORDER)]

VectorSub(a, b) ==
    IF Len(a) # Len(b) THEN <<>>
    ELSE [i \in 1..Len(a) |-> Mod(Sub(a[i], b[i]), ORDER)]

VectorScalarMul(a, b) == [i \in 1..Len(a) |-> Mod(Multiply(a[i], b), ORDER)]

VectorMul(a, b) ==
    IF Len(a) # Len(b) THEN <<>>
    ELSE [i \in 1..Len(a) |-> Mod(Multiply(a[i], b[i]), ORDER)]

VectorECAdd(a, b) ==
    IF Len(a) # Len(b) THEN <<>>
    ELSE [i \in 1..Len(a) |-> p256Multiply(a[i], b[i])]

RECURSIVE SumTo(_, _, _)
SumTo(a, b, i) ==
    IF i = 0 THEN 0
    ELSE Mod(SumTo(a, b, i - 1) + Multiply(a[i], b[i]), ORDER)

\* the nil result of a length mismatch is only ever passed on, never read
ScalarProduct(a, b) == IF Len(a) # Len(b) THEN 0 ELSE SumTo(a, b, Len(a))

RECURSIVE ExpTo(_, _, _)
ExpTo(a, b, i) ==
    IF i = 0 THEN SetInfinity
    ELSE p256Multiply(ExpTo(a, b, i - 1), ScalarMult(a[i], b[i]))

VectorExp(a, b) == IF Len(a) # Len(b) THEN NilPoint ELSE ExpTo(a, b, Len(a))

VectorScalarExp(a, b) == [i \in 1..Len(a) |-> ScalarMult(a[i], b)]

RECURSIVE Power(_, _)
Power(x, k) == IF k = 0 THEN 1 ELSE Mod(Multiply(Power(x, k - 1), x), ORDER)

PowerOf(x, n) == [i \in 1..n |-> Power(x, i - 1)]

NonBinary(x) == \E i \in 1..Len(x) : x[i] \notin {0, 1}

ComputeAR(x) ==
    IF NonBinary(x) THEN <<>>
    ELSE [i \in 1..Len(x) |-> IF x[i] = 0 THEN -1 ELSE 0]

RECURSIVE Pow(_, _)
Pow(x, k) == IF k = 0 THEN 1 ELSE x * Pow(x, k - 1)

InRange(v, n) == 0 <= v /\ v < Pow(2, n)

\* Decompose lies outside the sources at hand.  On a secret outside
\* [0, u^l) it either keeps the l low digits ("truncate") or reports the
\* error of the written design and returns no digits ("error").
DecomposeModes == {"truncate", "error"}

Decompose(x, u, l, mode) ==
    IF mode = "error" /\ ~(0 <= x /\ x < Pow(u, l)) THEN <<>>
    ELSE [i \in 1..l |-> Mod(x \div Pow(u, i - 1), u)]

CommitG1(x, r, H) == p256Multiply(ScalarBaseMult(x), ScalarMult(H, r))

RECURSIVE CommitTo(_, _, _, _, _, _)
CommitTo(aL, aR, alpha, H, g, h) ==
    IF Len(aL) = 0 THEN ScalarMult(H, alpha)
    ELSE LET k == Len(aL)
             R == CommitTo(Take(aL, k - 1), Take(aR, k - 1), alpha, H, g, h)
         IN  p256Multiply(p256Multiply(R, ScalarMult(g[k], aL[k])),
                          ScalarMult(h[k], aR[k]))

CommitVector(aL, aR, alpha, G, H, g, h, n) ==
    CommitTo(Take(aL, n), Take(aR, n), alpha, H, g, h)

CommitVectorBig(aL, aR, alpha, G, H, g, h, n) ==
    CommitTo(Take(aL, n), Take(aR, n), alpha, H, g, h)

CommitInnerProduct(g, h, a, b) == p256Multiply(VectorExp(g, a), VectorExp(h, b))

\* ------------------------------------------------------------------------
\* Inner-product argument: bip
\* ------------------------------------------------------------------------
\* The zero value of a bip: no method ever assigns the field n.
ZeroBip == [n |-> 0, c |-> 0, u |-> NilPoint, H |-> NilPoint,
            g |-> <<>>, h |-> <<>>, P |-> NilPoint]

bipSetup(zkip, H, g, h, c) ==
    [zkip EXCEPT !.u = MapToGroup(SEEDU), !.H = H, !.g = g, !.h = h, !.c = c]

EmptyProofBip == [Ls |-> <<>>, Rs |-> <<>>, u |-> NilPoint, P |-> NilPoint,
                  g |-> NilPoint, h |-> NilPoint, a |-> 0, b |-> 0, n |-> 0]

\* L = g^a.h^b.u^<a, b> on the halves BIP hands over; nil when a VectorExp
\* reports a length mismatch.
BIPSide(g, a, h, b, u) ==
    LET e1 == VectorExp(g, a)
        e2 == VectorExp(h, b)
    IN  IF e1 = NilPoint \/ e2 = NilPoint THEN NilPoint
        ELSE p256Multiply(p256Multiply(e1, e2), ScalarMult(u, ScalarProduct(a, b)))

\* The challenge x = HashBP(L, R) and the folded g', h', P', a', b'.
BIPFold(a, b, g, h, P, nprime, L, R) ==
    LET x == HashBP(L, R)[1]
        xinv == ModInverse(x, ORDER)
        x2 == Mod(Multiply(x, x), ORDER)
        x2inv == ModInverse(x2, ORDER)
    IN  [nil |-> L = NilPoint \/ R = NilPoint, nprime |-> nprime, L |-> L, R |-> R,
         gprime |-> VectorECAdd(VectorScalarExp(Take(g, nprime), xinv),
                                VectorScalarExp(Drop(g, nprime), x)),
         hprime |-> VectorECAdd(VectorScalarExp(Take(h, nprime), x),
                                VectorScalarExp(Drop(h, nprime), xinv)),
         Pprime |-> p256Multiply(p256Multiply(ScalarMult(L, x2), P),
                                 ScalarMult(R, x2inv)),
         aprime |-> VectorAdd(VectorScalarMul(Take(a, nprime), x),
                              VectorScalarMul(Drop(a, nprime), xinv)),
         bprime |-> VectorAdd(VectorScalarMul(Take(b, nprime), xinv),
                              VectorScalarMul(Drop(b, nprime), x))]

\* One level of BIP: the values computed before the recursive call.
BIPStep(a, b, g, h, u, P, n) ==
    BIPFold(a, b, g, h, P, n \div 2,
            BIPSide(Drop(g, n \div 2), Take(a, n \div 2),
                    Take(h, n \div 2), Drop(b, n \div 2), u),
            BIPSide(Take(g, n \div 2), Drop(a, n \div 2),
                    Drop(h, n \div 2), Take(b, n \div 2), u))

\* What a level of BIP returns once its recursive call r is back.
BIPReturn(r, n) == IF r.status # "ok" THEN r ELSE [r EXCEPT !.proof.n = n]

\* status "ok": a proof is returned with a nil error (the only error value
\* BIP has); "panic": L.Multiply on the nil result of VectorExp, or the
\* index a[0] of an empty slice; "overflow": the recursion never reaches n = 1.
RECURSIVE BIP(_, _, _, _, _, _, _, _, _)
BIPRecurse(s, u, n, Ls, Rs) ==
    IF s.nil THEN [status |-> "panic", proof |-> EmptyProofBip]
    ELSE BIPReturn(BIP(s.aprime, s.bprime, s.gprime, s.hprime, u, s.Pprime,
                       s.nprime, Append(Ls, s.L), Append(Rs, s.R)), n)

BIP(a, b, g, h, u, P, n, Ls, Rs) ==
    IF n = 1 THEN
        IF Len(a) = 0 \/ Len(b) = 0 \/ Len(g) = 0 \/ Len(h) = 0
        THEN [status |-> "panic", proof |-> EmptyProofBip]
        ELSE [status |-> "ok",
              proof |-> [Ls |-> Ls, Rs |-> Rs, u |-> u, P |-> P, g |-> g[1],
                         h |-> h[1], a |-> a[1], b |-> b[1], n |-> n]]
    ELSE IF n <= 0 THEN [status |-> "overflow", proof |-> EmptyProofBip]
    ELSE BIPRecurse(BIPStep(a, b, g, h, u, P, n), u, n, Ls, Rs)

\* What bip.Prove leaves and returns once BIP is back with r; P1 is the
\* caller's point after P.Multiply(P, uxc).
bipProveReturn(zkip, hashed, P1, r) ==
    [status |-> r.status, proof |-> r.proof,
     zkip |-> [zkip EXCEPT !.P = P1], hashed |-> hashed, P |-> P1]

\* bip.Prove from P.Multiply(P, uxc) on, with ux = u^x.
bipProveFold(zkip, a, b, hashed, ux, P1) ==
    IF Len(a) # Len(b)
    THEN [status |-> "error", proof |-> EmptyProofBip, zkip |-> zkip,
          hashed |-> hashed, P |-> P1]
    ELSE bipProveReturn(zkip, hashed, P1,
                        BIP(a, b, zkip.g, zkip.h, ux, P1, Len(a), <<>>, <<>>))

\* bip.Prove from the challenge x = HashIP(g, h, P, c, zkip.n) on.
bipProveChallenge(zkip, a, b, P, hashed, ux) ==
    bipProveFold(zkip, a, b, hashed, ux,
                 p256Multiply(P, ScalarMult(ux, zkip.c)))

\* bip.Prove: P is the caller's point, updated in place and kept in zkip.P.
bipProve(zkip, a, b, P) ==
    bipProveChallenge(zkip, a, b, P,
                      HashIPInput(zkip.g, zkip.h, P, zkip.c, zkip.n),
                      ScalarMult(zkip.u, HashIP(zkip.g, zkip.h, P, zkip.c, zkip.n)))

\* The loop of bip.Verify from index i on; Pprime is zkip.P itself.
RECURSIVE VerifyLoop(_, _, _, _, _, _)
VerifyLoop(proof, i, gprime, hprime, Pprime, nprime) ==
    IF i >= Len(proof.Ls) THEN [g |-> gprime, h |-> hprime, P |-> Pprime]
    ELSE LET np == nprime \div 2
             x == HashBP(proof.Ls[i + 1], proof.Rs[i + 1])[1]
             xinv == ModInverse(x, ORDER)
             x2 == Mod(Multiply(x, x), ORDER)
             x2inv == ModInverse(x2, ORDER)
         IN  VerifyLoop(proof, i + 1,
                 VectorECAdd(VectorScalarExp(Take(gprime, np), xinv),
                             VectorScalarExp(Drop(gprime, np), x)),
                 VectorECAdd(VectorScalarExp(Take(hprime, np), x),
                             VectorScalarExp(Drop(hprime, np), xinv)),
                 p256Multiply(p256Multiply(Pprime, ScalarMult(proof.Ls[i + 1], x2)),
                              ScalarMult(proof.Rs[i + 1], x2inv)),
                 np)

\* The verdict of bip.Verify on nP = P'^-1 . g'^a . h'^b . u^(a.b).
bipVerdict(zkip, nP) ==
    [status |-> "ok", ok |-> IsZero(nP), zkip |-> [zkip EXCEPT !.P = nP]]

\* bip.Verify after its loop, which left f.g, f.h and f.P.
bipVerifyFinal(zkip, proof, f) ==
    IF Len(f.g) = 0 \/ Len(f.h) = 0
    THEN [status |-> "panic", ok |-> FALSE, zkip |-> [zkip EXCEPT !.P = f.P]]
    ELSE bipVerdict(zkip,
             p256Multiply(Neg(f.P),
                 p256Multiply(
                     p256Multiply(ScalarMult(f.g[1], proof.a),
                                  ScalarMult(f.h[1], proof.b)),
                     ScalarMult(proof.u, Mod(Multiply(proof.a, proof.b), ORDER)))))

\* bip.Verify: "panic" when zkip.P is nil or a folded generator vector is
\* empty; otherwise the verdict, and zkip with P as the call leaves it.
bipVerify(zkip, proof) ==
    IF zkip.P = NilPoint THEN [status |-> "panic", ok |-> FALSE, zkip |-> zkip]
    ELSE bipVerifyFinal(zkip, proof,
                        VerifyLoop(proof, 0, zkip.g, zkip.h, zkip.P, proof.n))

\* ------------------------------------------------------------------------
\* Range proof: bp
\* ------------------------------------------------------------------------
Log2Floor(b) == CHOOSE k \in 0..b : Pow(2, k) <= b /\ b < Pow(2, k + 1)

IsPowerOfTwo(n) == \E k \in 0..n : Pow(2, k) = n

\* Delta with z^2 where z^3 belongs: the slip C1_Completeness must notice.
DeltaSquare(zkrp, y, z) ==
    LET z2 == Mod(Multiply(z, z), ORDER)
        sp1y == ScalarProduct(VectorCopy(1, zkrp.n), PowerOf(y, zkrp.n))
        sp12 == ScalarProduct(VectorCopy(1, zkrp.n), PowerOf(2, zkrp.n))
    IN  Mod(Sub(Multiply(Sub(z, z2), sp1y), Multiply(z2, sp12)), ORDER)

\* delta(y,z) = (z-z^2) . < 1^n, y^n > - z^3 . < 1^n, 2^n >
Delta(zkrp, y, z) ==
    LET z2 == Mod(Multiply(z, z), ORDER)
        z3 == Mod(Multiply(z2, z), ORDER)
        v1 == VectorCopy(1, zkrp.n)
        vy == PowerOf(y, zkrp.n)
        sp1y == ScalarProduct(v1, vy)
        p2n == PowerOf(2, zkrp.n)
        sp12 == ScalarProduct(v1, p2n)
    IN  Mod(Sub(Multiply(Sub(z, z2), sp1y), Multiply(z3, sp12)), ORDER)

\* The bp after Setup(a, b) when the random source yields the given tape.
Setup(a, b, tape) ==
    LET G == ScalarBaseMult(1)
        H == MapToGroup(SEEDH)
        n == Log2Floor(b)
        g == [i \in 1..n |-> ScalarBaseMult(RandInt(tape, 2 * i - 1))]
        h == [i \in 1..n |-> ScalarMult(H, RandInt(tape, 2 * i))]
    IN  [n |-> n, G |-> G, H |-> H, g |-> g, h |-> h,
         zkip |-> bipSetup(ZeroBip, H, g, h, 0)]

EmptyProofBP == [V |-> NilPoint, A |-> NilPoint, S |-> NilPoint, T1 |-> NilPoint,
                 T2 |-> NilPoint, taux |-> 0, mu |-> 0, tprime |-> 0,
                 proofip |-> EmptyProofBip]

\* h'[0] = h[0], h'[i] = h[i]^(y^-i): the "Switch generators" loop.
SwitchGenerators(h, y, n) ==
    LET yinv == ModInverse(y, ORDER)
    IN  [i \in 1..n |-> IF i = 1 THEN h[1] ELSE ScalarMult(h[i], Pow(yinv, i - 1))]

\* First phase of bp.Prove on the digits aL: the commitments V, A, S and the
\* challenges y, z.
FirstPhase(zkrp, secret, tape, at, aL) ==
    LET n == zkrp.n
        gamma == RandInt(tape, at + 1)
        aR == ComputeAR(aL)
        alpha == RandInt(tape, at + 2)
        A == CommitVector(aL, aR, alpha, zkrp.G, zkrp.H, zkrp.g, zkrp.h, n)
        rho == RandInt(tape, at + 3)
        sL == [i \in 1..n |-> RandInt(tape, at + 2 + 2 * i)]
        sR == [i \in 1..n |-> RandInt(tape, at + 3 + 2 * i)]
        S == CommitVectorBig(sL, sR, rho, zkrp.G, zkrp.H, zkrp.g, zkrp.h, n)
        yz == HashBP(A, S)
    IN  [gamma |-> gamma, V |-> CommitG1(secret, gamma, zkrp.H), aL |-> aL,
         aR |-> aR, alpha |-> alpha, A |-> A, rho |-> rho, sL |-> sL, sR |-> sR,
         S |-> S, y |-> yz[1], z |-> yz[2]]

\* Second phase, after the first phase f: T1, T2 and the challenge x.
SecondPhase(zkrp, tape, at, f) ==
    LET n == zkrp.n
        tau1 == RandInt(tape, at + 4 + 2 * n)
        tau2 == RandInt(tape, at + 5 + 2 * n)
        vz == VectorCopy(f.z, n)
        vy == PowerOf(f.y, n)
        naL == VectorConvertToBig(f.aL, n)
        aLmvz == VectorSub(naL, vz)
        ynsR == VectorMul(vy, f.sR)
        sp1 == ScalarProduct(aLmvz, ynsR)
        naR == VectorConvertToBig(f.aR, n)
        aRzn == VectorAdd(naR, vz)
        ynaRzn == VectorMul(vy, aRzn)
        p2n == PowerOf(2, n)
        zsquared == Multiply(f.z, f.z)
        z22n == VectorScalarMul(p2n, zsquared)
        ynaRzn1 == VectorAdd(ynaRzn, z22n)
        sp2 == ScalarProduct(f.sL, ynaRzn1)
        t1 == Mod(Add(sp1, sp2), ORDER)
        t2 == Mod(ScalarProduct(f.sL, ynsR), ORDER)
        T1 == CommitG1(t1, tau1, zkrp.H)
        T2 == CommitG1(t2, tau2, zkrp.H)
    IN  [tau1 |-> tau1, tau2 |-> tau2, vy |-> vy, aLmvz |-> aLmvz, aRzn |-> aRzn,
         z22n |-> z22n, T1 |-> T1, T2 |-> T2, x |-> HashBP(T1, T2)[1]]

\* Third phase, after the phases f and s: bl, br, t', taux and mu.
ThirdPhase(f, s) ==
    LET sLx == VectorScalarMul(f.sL, s.x)
        bl == VectorAdd(s.aLmvz, sLx)
        sRx == VectorScalarMul(f.sR, s.x)
        aRzn2 == VectorAdd(s.aRzn, sRx)
        ynaRzn2 == VectorMul(s.vy, aRzn2)
        br == VectorAdd(ynaRzn2, s.z22n)
    IN  [bl |-> bl, br |-> br, tprime |-> ScalarProduct(bl, br),
         taux |-> Mod(Add(Add(Multiply(s.tau2, Multiply(s.x, s.x)),
                              Multiply(s.tau1, s.x)),
                          Multiply(Multiply(f.z, f.z), f.gamma)), ORDER),
         mu |-> Mod(Add(Multiply(f.rho, s.x), f.alpha), ORDER)]

\* The inner-product argument bp.Prove runs on (g, h', bl, br) after it
\* has stored h' and c = t' in zkrp.zkip.
InnerProductPhase(zkrp, t, hprime) ==
    bipProve([zkrp.zkip EXCEPT !.h = hprime, !.c = t.tprime], t.bl, t.br,
             CommitInnerProduct(zkrp.g, hprime, t.bl, t.br))

\* What bp.Prove returns after the phases f, s, t and the argument ip.
ProveReturn(n, f, s, t, ip) ==
    IF ip.status # "ok"
    THEN [status |-> ip.status, proof |-> EmptyProofBP, zkip |-> ip.zkip,
          hashed |-> ip.hashed, draws |-> 5 + 2 * n]
    ELSE [status |-> "ok", draws |-> 5 + 2 * n,
          proof |-> [V |-> f.V, A |-> f.A, S |-> f.S, T1 |-> s.T1, T2 |-> s.T2,
                     taux |-> t.taux, mu |-> t.mu, tprime |-> t.tprime,
                     proofip |-> ip.proof],
          zkip |-> ip.zkip, hashed |-> ip.hashed]

\* bp.Prove from its third phase on.
ProveThird(zkrp, f, s, t) ==
    ProveReturn(zkrp.n, f, s, t,
                InnerProductPhase(zkrp, t, SwitchGenerators(zkrp.h, f.y, zkrp.n)))

\* bp.Prove from its second phase on.
ProveSecond(zkrp, f, s) == ProveThird(zkrp, f, s, ThirdPhase(f, s))

\* bp.Prove once Decompose has answered with the digits aL: CommitVector
\* indexes aL and aR up to n and panics on shorter slices, after two draws;
\* with n = 0 the panic is that of hprime[0], after all five draws.
ProveDigits(zkrp, secret, tape, at, aL, f) ==
    IF Len(aL) < zkrp.n \/ Len(ComputeAR(aL)) < zkrp.n \/ zkrp.n < 1
    THEN [status |-> "panic", proof |-> EmptyProofBP, zkip |-> zkrp.zkip,
          hashed |-> <<>>, draws |-> IF zkrp.n < 1 THEN 5 ELSE 2]
    ELSE ProveSecond(zkrp, f, SecondPhase(zkrp, tape, at, f))

\* bp.Prove on the secret when `at` draws of the tape are used up; mode is
\* Decompose's answer to a secret out of range.  Returns the status ("ok":
\* a proof and a nil error, which is the only error value Prove returns;
\* "panic"/"overflow": the call does not return), the proof, the zkip the
\* call leaves behind, the chunks it hands to HashIP and the number of
\* rand.Int draws it makes.
Prove(zkrp, secret, tape, at, mode) ==
    ProveDigits(zkrp, secret, tape, at, Decompose(secret, 2, zkrp.n, mode),
                FirstPhase(zkrp, secret, tape, at,
                           Decompose(secret, 2, zkrp.n, mode)))

\* Condition (65) of bp.Verify.
C65(zkrp, proof) ==
    LET yz == HashBP(proof.A, proof.S)
        y == yz[1]
        z == yz[2]
        x == HashBP(proof.T1, proof.T2)[1]
        lhs == CommitG1(proof.tprime, proof.taux, zkrp.H)
        z2 == Mod(Multiply(z, z), ORDER)
        x2 == Mod(Multiply(x, x), ORDER)
        delta == Delta(zkrp, y, z)
        gdelta == ScalarBaseMult(delta)
        T1x == ScalarMult(proof.T1, x)
        T2x2 == ScalarMult(proof.T2, x2)
        rhs == p256Multiply(p256Multiply(p256Multiply(
                   ScalarMult(proof.V, z2), gdelta), T1x), T2x2)
    IN  IsZero(p256Multiply(rhs, Neg(lhs)))

\* Verify returning the inner-product verdict alone, condition (65) left
\* out: the slip C12_BoundaryProofRejected must notice.
VerifyReturnInnerOnly(c65, ip) ==
    [status |-> ip.status, ok |-> ip.status = "ok" /\ ip.ok, zkip |-> ip.zkip]

\* result := c65 && ok, and the zkip that zkrp.zkip.Verify leaves behind.
VerifyReturn(c65, ip) ==
    [status |-> ip.status, ok |-> ip.status = "ok" /\ c65 /\ ip.ok, zkip |-> ip.zkip]

\* bp.Verify: the h' it derives from y is never used; the inner-product
\* check runs on zkrp.zkip as the last Prove and Verify left it.
Verify(zkrp, proof) ==
    IF zkrp.n < 1 THEN [status |-> "panic", ok |-> FALSE, zkip |-> zkrp.zkip]
    ELSE VerifyReturn(C65(zkrp, proof), bipVerify(zkrp.zkip, proof.proofip))

\* ------------------------------------------------------------------------
\* The program: parameters objects, the proofs handed out, the calls made
\* ------------------------------------------------------------------------
VARIABLES cfg, zkrp, drawn, proofs, calls

vars == <<cfg, zkrp, drawn, proofs, calls>>

Tapes == 1..MaxTape

UpperBounds == {Pow(2, k) : k \in 1..MaxLogB}

Secrets(n) == {v \in (0 - 1)..MaxSecret : v <= Pow(2, n)}

TamperDeltas == {d \in 1..MaxTamper : d < ORDER}

NoTamper == [field |-> "none", pos |-> 0, delta |-> 0]

Tampers(proof) ==
    {NoTamper}
    \cup {[field |-> f, pos |-> 0, delta |-> d] :
            f \in {"V", "A", "S", "T1", "T2", "taux", "mu", "tprime", "a", "b"},
            d \in TamperDeltas}
    \cup {[field |-> f, pos |-> k, delta |-> d] :
            f \in {"L", "R"}, k \in 1..Len(proof.proofip.Ls), d \in TamperDeltas}

Shift(x, t) == Mod(x + t.delta, ORDER)

\* The proof with the one component named by t replaced by another value.
Tampered(proof, t) ==
    CASE t.field = "V" -> [proof EXCEPT !.V = Shift(@, t)]
      [] t.field = "A" -> [proof EXCEPT !.A = Shift(@, t)]
      [] t.field = "S" -> [proof EXCEPT !.S = Shift(@, t)]
      [] t.field = "T1" -> [proof EXCEPT !.T1 = Shift(@, t)]
      [] t.field = "T2" -> [proof EXCEPT !.T2 = Shift(@, t)]
      [] t.field = "taux" -> [proof EXCEPT !.taux = Shift(@, t)]
      [] t.field = "mu" -> [proof EXCEPT !.mu = Shift(@, t)]
      [] t.field = "tprime" -> [proof EXCEPT !.tprime = Shift(@, t)]
      [] t.field = "a" -> [proof EXCEPT !.proofip.a = Shift(@, t)]
      [] t.field = "b" -> [proof EXCEPT !.proofip.b = Shift(@, t)]
      [] t.field = "L" -> [proof EXCEPT !.proofip.Ls[t.pos] = Shift(@, t)]
      [] t.field = "R" -> [proof EXCEPT !.proofip.Rs[t.pos] = Shift(@, t)]
      [] OTHER -> proof

Crashed == calls # <<>> /\ calls[Len(calls)].status \in {"panic", "overflow"}

\* The state after Setup(0, b): Setup has made the first 2n draws of the tape.
Init ==
    /\ cfg \in [b : UpperBounds, tape : Tapes, mode : DecomposeModes, c : {0}]
    /\ zkrp = [o \in Objs |-> Setup(0, cfg.b, cfg.tape)]
    /\ drawn = 2 * Log2Floor(cfg.b)
    /\ proofs = <<>>
    /\ calls = <<>>

\* The state Prove(secret) on zkrp[o] leaves when it ends as r says.
ProveCallReturn(o, secret, r) ==
    LET moved == r.hashed # <<>>
        kept == [i \in 1..Len(proofs) |->
                    IF moved /\ proofs[i].alias = o
                    THEN [proofs[i] EXCEPT !.alias = 0] ELSE proofs[i]]
    IN  /\ zkrp' = [zkrp EXCEPT ![o].zkip = r.zkip]
        /\ drawn' = drawn + r.draws
        /\ proofs' = IF r.status = "ok"
                     THEN Append(kept, [proof |-> r.proof, obj |-> o, v |-> secret,
                                        alias |-> IF zkrp[o].n = 1 THEN o ELSE 0])
                     ELSE kept
        /\ calls' = Append(calls,
               [op |-> "Prove", obj |-> o, v |-> secret, idx |-> Len(proofs) + 1,
                tamper |-> NoTamper, status |-> r.status, ok |-> FALSE,
                hashed |-> r.hashed, c |-> r.zkip.c])

\* zkrp[o].Prove(secret): the proof, when one is returned, joins proofs.
\* With n = 1 the P of the returned proof is the very point zkip.P holds
\* (alias = o) until the next Prove gives zkip.P another point.  A call
\* that panics ends the run.
ProveCall(o, secret) ==
    /\ Len(calls) < MaxCalls
    /\ Len(proofs) < MaxProofs
    /\ ~Crashed
    /\ ProveCallReturn(o, secret, Prove(zkrp[o], secret, cfg.tape, drawn, cfg.mode))
    /\ UNCHANGED cfg

\* The state Verify on zkrp[o] leaves when it ends as r says: the proofs
\* whose P is the point zkip.P see what the call did to it.
VerifyCallReturn(o, i, t, r) ==
    /\ zkrp' = [zkrp EXCEPT ![o].zkip = r.zkip]
    /\ proofs' = [k \in 1..Len(proofs) |->
                     IF proofs[k].alias = o
                     THEN [proofs[k] EXCEPT !.proof.proofip.P = r.zkip.P]
                     ELSE proofs[k]]
    /\ calls' = Append(calls,
           [op |-> "Verify", obj |-> o, v |-> proofs[i].v, idx |-> i,
            tamper |-> t, status |-> r.status, ok |-> r.ok,
            hashed |-> <<>>, c |-> zkrp[o].zkip.c])

\* zkrp[o].Verify on the i-th proof handed out, as it is (t = NoTamper) or
\* with one component replaced.
VerifyCall(o, i, t) ==
    /\ Len(calls) < MaxCalls
    /\ ~Crashed
    /\ i \in 1..Len(proofs)
    /\ t \in Tampers(proofs[i].proof)
    /\ VerifyCallReturn(o, i, t, Verify(zkrp[o], Tampered(proofs[i].proof, t)))
    /\ UNCHANGED <<cfg, drawn>>

\* One parameters object, proofs verified as they were returned.
Next ==
    \/ \E secret \in Secrets(zkrp[1].n) : ProveCall(1, secret)
    \/ \E i \in 1..Len(proofs) : VerifyCall(1, i, NoTamper)

Spec == Init /\ [][Next]_vars

\* The same, and the verifier may be handed a proof with one component replaced.
NextTamper ==
    \/ \E secret \in Secrets(zkrp[1].n) : ProveCall(1, secret)
    \/ \E i \in 1..Len(proofs) :
         \E t \in Tampers(proofs[i].proof) : VerifyCall(1, i, t)

SpecTamper == Init /\ [][NextTamper]_vars

\* Two parameters objects with the same Setup output.
NextShared ==
    \/ \E o \in Objs, secret \in Secrets(zkrp[1].n) : ProveCall(o, secret)
    \/ \E o \in Objs, i \in 1..Len(proofs) : VerifyCall(o, i, NoTamper)

SpecShared == Init /\ [][NextShared]_vars

\* One parameters object; the secrets reach up to 2^(n+1) - 1, one bit more
\* than the range.
BoundarySecrets(n) == {v \in 0..MaxSecret : v < Pow(2, n + 1)}

NextBoundary ==
    \/ \E secret \in BoundarySecrets(zkrp[1].n) : ProveCall(1, secret)
    \/ \E i \in 1..Len(proofs) : VerifyCall(1, i, NoTamper)

SpecBoundary == Init /\ [][NextBoundary]_vars

\* Setup(0, b) with any upper bound b >= 2, a power of two or not.
AnyUpperBounds == 2..MaxUpper

InitAny ==
    /\ cfg \in [b : AnyUpperBounds, tape : Tapes, mode : DecomposeModes, c : {0}]
    /\ zkrp = [o \in Objs |-> Setup(0, cfg.b, cfg.tape)]
    /\ drawn = 2 * Log2Floor(cfg.b)
    /\ proofs = <<>>
    /\ calls = <<>>

SpecAny == InitAny /\ [][Next]_vars

\* ------------------------------------------------------------------------
\* The inner-product argument on its own: zkrp[1].zkip after
\* zkrp.Setup(0, 2^len) and zkip.Setup(zkrp.H, zkrp.g, zkrp.h, c)
\* ------------------------------------------------------------------------
InitIP ==
    /\ cfg \in [b : {Pow(2, len) : len \in 0..MaxLen}, tape : Tapes,
                mode : {"truncate"}, c : 0..MaxClaim]
    /\ zkrp = [o \in Objs |->
                 LET z == Setup(0, cfg.b, cfg.tape)
                 IN  [z EXCEPT !.zkip = bipSetup(z.zkip, z.H, z.g, z.h, cfg.c)]]
    /\ drawn = 2 * Log2Floor(cfg.b)
    /\ proofs = <<>>
    /\ calls = <<>>

\* The input vectors of the stand-alone argument, read off a tape.
InputA(t, n) == [i \in 1..n |-> RandInt(t, 2 * n + i)]

InputB(t, n) == [i \in 1..n |-> RandInt(t, 3 * n + i)]

\* zkip.Setup(H, g, h, c) once more, with another claimed inner product.
SetupIPCall(c) ==
    /\ Len(calls) < MaxCalls
    /\ ~Crashed
    /\ zkrp' = [zkrp EXCEPT ![1].zkip =
                   bipSetup(@, zkrp[1].H, zkrp[1].g, zkrp[1].h, c)]
    /\ calls' = Append(calls,
           [op |-> "SetupIP", obj |-> 1, v |-> 0, idx |-> 0, tamper |-> NoTamper,
            status |-> "ok", ok |-> FALSE, hashed |-> <<>>, c |-> c])
    /\ UNCHANGED <<cfg, drawn, proofs>>

\* The state zkip.Prove(a, b, commit) leaves when it ends as r says.
ProveIPCallReturn(a, b, r) ==
    LET kept == [i \in 1..Len(proofs) |-> [proofs[i] EXCEPT !.alias = 0]]
    IN  /\ zkrp' = [zkrp EXCEPT ![1].zkip = r.zkip]
        /\ proofs' = IF r.status = "ok"
                     THEN Append(kept, [proof |-> r.proof, obj |-> 1,
                                        v |-> ScalarProduct(a, b),
                                        alias |-> IF Len(a) = 1 THEN 1 ELSE 0])
                     ELSE kept
        /\ calls' = Append(calls,
               [op |-> "ProveIP", obj |-> 1, v |-> ScalarProduct(a, b),
                idx |-> Len(proofs) + 1, tamper |-> NoTamper,
                status |-> r.status, ok |-> FALSE, hashed |-> r.hashed,
                c |-> zkrp[1].zkip.c])

\* zkip.Prove(a, b, commit) with commit = CommitInnerProduct(g, h, a, b); the
\* call record keeps <a, b> in v and the claimed c the bip holds.
ProveIPCall(t) ==
    /\ Len(calls) < MaxCalls
    /\ Len(proofs) < MaxProofs
    /\ ~Crashed
    /\ ProveIPCallReturn(InputA(t, zkrp[1].n), InputB(t, zkrp[1].n),
           bipProve(zkrp[1].zkip, InputA(t, zkrp[1].n), InputB(t, zkrp[1].n),
                    CommitInnerProduct(zkrp[1].zkip.g, zkrp[1].zkip.h,
                                       InputA(t, zkrp[1].n), InputB(t, zkrp[1].n))))
    /\ UNCHANGED <<cfg, drawn>>

\* The state zkip.Verify leaves when it ends as r says.
VerifyIPCallReturn(i, r) ==
    /\ zkrp' = [zkrp EXCEPT ![1].zkip = r.zkip]
    /\ proofs' = [k \in 1..Len(proofs) |->
                     IF proofs[k].alias = 1
                     THEN [proofs[k] EXCEPT !.proof.P = r.zkip.P]
                     ELSE proofs[k]]
    /\ calls' = Append(calls,
           [op |-> "VerifyIP", obj |-> 1, v |-> proofs[i].v, idx |-> i,
            tamper |-> NoTamper, status |-> r.status, ok |-> r.ok,
            hashed |-> <<>>, c |-> zkrp[1].zkip.c])

\* zkip.Verify on the i-th inner-product proof handed out.
VerifyIPCall(i) ==
    /\ Len(calls) < MaxCalls
    /\ ~Crashed
    /\ i \in 1..Len(proofs)
    /\ VerifyIPCallReturn(i, bipVerify(zkrp[1].zkip, proofs[i].proof))
    /\ UNCHANGED <<cfg, drawn>>

NextIP ==
    \/ \E c \in 0..MaxClaim : SetupIPCall(c)
    \/ \E t \in Tapes : ProveIPCall(t)
    \/ \E i \in 1..Len(proofs) : VerifyIPCall(i)

SpecIP == InitIP /\ [][NextIP]_vars

\* ------------------------------------------------------------------------
\* Properties
\* ------------------------------------------------------------------------
Last == calls[Len(calls)]

\* call k is a Prove that returned a proof of a secret in [0, 2^n)
HonestProve(k) ==
    /\ calls[k].op = "Prove"
    /\ calls[k].status = "ok"
    /\ InRange(calls[k].v, zkrp[calls[k].obj].n)

\* call k is a Verify, on object o, of the proof call j returned, untampered
VerifyOf(k, j, o) ==
    /\ calls[k].op = "Verify"
    /\ calls[k].obj = o
    /\ calls[k].idx = calls[j].idx
    /\ calls[k].tamper = NoTamper

\* C1 (completeness): when the bit-width n is a power of two, every Prove of
\* a secret in [0, 2^n) returns a proof, and a Verify of that proof on the
\* same parameters object right after it, no call in between, returns true.
C1_Completeness ==
    \A k \in 1..Len(calls) :
        LET o == calls[k].obj
        IN  /\ (calls[k].op = "Prove" /\ IsPowerOfTwo(zkrp[o].n)
                    /\ InRange(calls[k].v, zkrp[o].n))
               => calls[k].status = "ok"
            /\ (k > 1 /\ IsPowerOfTwo(zkrp[o].n) /\ HonestProve(k - 1)
                    /\ VerifyOf(k, k - 1, calls[k - 1].obj))
               => (calls[k].status = "ok" /\ calls[k].ok)

\* C1 witness: on a freshly set up object of bit-width 4, Prove of a secret
\* in range followed at once by Verify of the proof, which returns true.
C1_Witness ==
    /\ Len(calls) = 2
    /\ zkrp[1].n = 4
    /\ HonestProve(1)
    /\ calls[1].v = 6
    /\ VerifyOf(2, 1, 1)
    /\ calls[2].ok

\* C2 (Verify is deterministic): two Verify calls in a row on the same
\* parameters object and the same proof end the same way.
C2_VerifyRepeatable ==
    \A k \in 2..Len(calls) :
        (/\ calls[k - 1].op = "Verify"
         /\ calls[k].op = "Verify"
         /\ calls[k].obj = calls[k - 1].obj
         /\ calls[k].idx = calls[k - 1].idx
         /\ calls[k].tamper = calls[k - 1].tamper)
        => (calls[k].status = calls[k - 1].status /\ calls[k].ok = calls[k - 1].ok)

\* C3 (two proofs of one secret): after two Prove calls in a row on the same
\* object with the same secret in range, whose proofs differ in A or S, a
\* Verify of either proof returns true, whichever is verified first.
C3_BothProofsVerify ==
    \A k \in 3..Len(calls) : \A j \in {k - 2, k - 1} :
        LET p1 == k - 2
            p2 == k - 1
            o == calls[p1].obj
        IN  (/\ k - 2 >= 1
             /\ HonestProve(p1) /\ HonestProve(p2)
             /\ calls[p2].obj = o
             /\ calls[p2].v = calls[p1].v
             /\ (proofs[calls[p1].idx].proof.A # proofs[calls[p2].idx].proof.A
                 \/ proofs[calls[p1].idx].proof.S # proofs[calls[p2].idx].proof.S)
             /\ VerifyOf(k, j, o))
            => (calls[k].status = "ok" /\ calls[k].ok)

\* C4 (parameters are immutable): every field of every parameters object
\* has the value Setup gave it.
C4_ParametersImmutable ==
    \A o \in Objs : zkrp[o] = Setup(0, cfg.b, cfg.tape)

\* C5 (range check of Prove): Prove of a secret below 0 or not below 2^n
\* ends with an error and returns no proof; Prove of 2^n - 1 returns a proof
\* (n a power of two).
C5_ProveRejectsOutOfRange ==
    \A k \in 1..Len(calls) :
        LET n == zkrp[calls[k].obj].n
        IN  calls[k].op = "Prove" =>
              /\ ~InRange(calls[k].v, n) => calls[k].status = "error"
              /\ (IsPowerOfTwo(n) /\ calls[k].v = Pow(2, n) - 1) => calls[k].status = "ok"

\* C10 (the first inner-product challenge binds the generators): the chunks
\* a Prove of a secret in range hands to HashIP are encode(P), then encode(g[i]) and
\* encode(h'[i]) for i = 0..n-1 in order, then the decimal of c = t'.
C10_HashIPBindsGenerators ==
    (calls # <<>> /\ HonestProve(Len(calls))) =>
        LET z == zkrp[Last.obj]
        IN  /\ Len(Last.hashed) = 2 * z.n + 2
            /\ Last.hashed = <<Last.hashed[1]>>
                               \o GenChunks(z.g, z.zkip.h, 0, z.n)
                               \o <<BigString(proofs[Last.idx].proof.tprime)>>

\* The components whose replacement a group of any order, this small one
\* included, either always or never lets through: V, taux and tprime enter
\* condition (65) directly, mu enters nothing.  Whether the replacement of
\* another component is noticed hinges, in a group of order ORDER, on hash
\* values and group elements that coincide by chance.
ExactComponents == {"V", "taux", "mu", "tprime"}

\* C6 (tamper detection), checked where the verifier may be handed a
\* tampered proof: a Verify, right after the Prove of a secret in range, of
\* the returned proof with one component (V, taux, mu or tprime) replaced
\* by another value returns false.
C6_TamperDetected ==
    \A k \in 2..Len(calls) :
        (/\ HonestProve(k - 1)
         /\ calls[k].op = "Verify"
         /\ calls[k].obj = calls[k - 1].obj
         /\ calls[k].idx = calls[k - 1].idx
         /\ calls[k].tamper.field \in ExactComponents)
        => (calls[k].status = "ok" /\ ~calls[k].ok)

\* C7 (Verify depends on the proof and the Setup output only): two Verify
\* calls on the same untampered proof of a secret in range, on two
\* parameters objects with the same Setup output, end the same way.
C7_VerifyIgnoresHistory ==
    \A j \in 1..Len(calls) : \A k \in 1..Len(calls) :
        (/\ calls[j].op = "Verify" /\ calls[k].op = "Verify"
         /\ InRange(calls[j].v, zkrp[calls[j].obj].n)
         /\ calls[j].obj # calls[k].obj
         /\ calls[j].idx = calls[k].idx
         /\ calls[j].tamper = NoTamper /\ calls[k].tamper = NoTamper)
        => (calls[j].status = calls[k].status /\ calls[j].ok = calls[k].ok)

\* C8 (the claimed inner product is bound), for vectors of power-of-two
\* length and P = g^a.h^b: a zkip.Verify of the proof zkip.Prove(a, b, P)
\* returned, run while the bip holds a claimed c other than <a, b> mod q,
\* returns false, whether c was set before the Prove or between the Prove
\* and the Verify.
C8_ClaimBound ==
    \A k \in 2..Len(calls) :
        LET j == IF calls[k - 1].op = "SetupIP" THEN k - 2 ELSE k - 1
        IN  (/\ j >= 1
             /\ calls[j].op = "ProveIP" /\ calls[j].status = "ok"
             /\ IsPowerOfTwo(zkrp[1].n)
             /\ calls[k].op = "VerifyIP" /\ calls[k].idx = calls[j].idx
             /\ Mod(calls[k].c, ORDER) # calls[k].v)
            => (calls[k].status = "ok" /\ ~calls[k].ok)

\* C9 (lengths that are no power of two are refused): zkip.Prove on vectors
\* whose length is no power of two ends with an error result: it neither
\* panics, nor recurses without end, nor returns a proof.
C9_NotPowerOfTwoRefused ==
    \A k \in 1..Len(calls) :
        (calls[k].op = "ProveIP" /\ ~IsPowerOfTwo(zkrp[1].n))
        => calls[k].status = "error"

\* The least k with 2^k >= b.
CeilLog2(b) == CHOOSE k \in 0..b : Pow(2, k) >= b /\ (k = 0 \/ Pow(2, k - 1) < b)

\* C11 (bit-width of Setup): after Setup(a, b) with b >= 2 the bit-width is
\* n = ceil(log2 b), so that 2^n >= b and every value of [0, b) lies in
\* [0, 2^n), and g and h have exactly n elements each.
C11_BitWidthCoversBound ==
    \A o \in Objs :
        /\ zkrp[o].n = CeilLog2(cfg.b)
        /\ Pow(2, zkrp[o].n) >= cfg.b
        /\ \A v \in 0..(cfg.b - 1) : InRange(v, zkrp[o].n)
        /\ Len(zkrp[o].g) = zkrp[o].n
        /\ Len(zkrp[o].h) = zkrp[o].n

\* v has exactly one bit more than the range: 2^n <= v < 2^(n+1)
AtBoundary(v, n) == Pow(2, n) <= v /\ v < Pow(2, n + 1)

\* p is the proof q of the low bits with V, and V alone, another point
SameButV(p, q, V) == p.V = V /\ p.V # q.V /\ [p EXCEPT !.V = q.V] = q

\* C12 (soundness at the boundary): when Prove of a secret v with
\* 2^n <= v < 2^(n+1) returns a proof, the proof has V committing to v and
\* every other component as in the proof of the low n bits of v made with
\* the same random draws; condition (65) fails on it, and every Verify of it
\* on the same parameters object returns false.
C12_BoundaryProofRejected ==
    /\ \A k \in 1..Len(calls) :
           (calls[k].op = "Verify" /\ AtBoundary(calls[k].v, zkrp[calls[k].obj].n))
           => (calls[k].status = "ok" /\ ~calls[k].ok)
    /\ \A i \in 1..Len(proofs) :
           AtBoundary(proofs[i].v, zkrp[proofs[i].obj].n)
           => ~C65(zkrp[proofs[i].obj], proofs[i].proof)
    /\ (calls # <<>> /\ Last.op = "Prove" /\ Last.status = "ok"
            /\ AtBoundary(Last.v, zkrp[Last.obj].n))
       => SameButV(proofs[Last.idx].proof,
                   Prove(zkrp[Last.obj], Last.v % Pow(2, zkrp[Last.obj].n), cfg.tape,
                         drawn - (5 + 2 * zkrp[Last.obj].n), cfg.mode).proof,
                   CommitG1(Last.v,
                            RandInt(cfg.tape, drawn - (5 + 2 * zkrp[Last.obj].n) + 1),
                            zkrp[Last.obj].H))

\* C12 witness: with bit-width 2, Prove(5) returns a proof and the Verify
\* that follows returns false.
C12_Witness ==
    /\ Len(calls) = 2
    /\ zkrp[1].n = 2
    /\ calls[1].op = "Prove" /\ calls[1].status = "ok"
    /\ calls[1].v = 5
    /\ VerifyOf(2, 1, 1)
    /\ calls[2].status = "ok" /\ ~calls[2].ok

====
